---- MODULE Spec2Model ----
(***************************************************************************)
(* Model of the batch converter of src/main.py: main() validates the music *)
(* folder, creates the <basename>_wav sub-folder, walks os.listdir() once  *)
(* and copies / transcodes / skips each entry while keeping counters.      *)
(* File names are sequences of characters, so that str.endswith and        *)
(* str.replace are computed the way Python computes them.  The folder and  *)
(* the output folder persist between invocations of main(); everything     *)
(* else is local to one invocation.                                        *)
(***************************************************************************)
EXTENDS Integers, Sequences, FiniteSets, TLC

\* ---------------------------------------------------------------- bounds
\* largest number of files in the music folder
MaxFiles == 3
\* number of times main() is invoked on the same folder
MaxRuns == 2

\* ------------------------------------------------------- strings of main
DotWav == <<".", "w", "a", "v">>
DotFlac == <<".", "f", "l", "a", "c">>
DotAiff == <<".", "a", "i", "f", "f">>
WavSuffix == <<"_", "w", "a", "v">>
Slash == <<"/">>

\* file names the music folder may hold
AWav == <<"a">> \o DotWav
AFlac == <<"a">> \o DotFlac
BFlac == <<"b">> \o DotFlac
BAiff == <<"b">> \o DotAiff
CTxt == <<"c", ".", "t", "x", "t">>
Names == {AWav, AFlac, BFlac, BAiff, CTxt}

\* values of the -f option
FolderArgs == {<<"m">>, <<"m", "/">>}

\* ------------------------------------------------------ string functions
\* str.endswith(suffix)
EndsWith(s, suffix) ==
    /\ Len(s) >= Len(suffix)
    /\ SubSeq(s, Len(s) - Len(suffix) + 1, Len(s)) = suffix

\* str.replace(old, new): every non-overlapping occurrence, left to right
RECURSIVE Replace(_, _, _)
Replace(s, old, new) ==
    IF Len(s) < Len(old) THEN s
    ELSE IF SubSeq(s, 1, Len(old)) = old
         THEN new \o Replace(SubSeq(s, Len(old) + 1, Len(s)), old, new)
         ELSE <<Head(s)>> \o Replace(Tail(s), old, new)

\* music_folder[:-1] when music_folder.endswith('/')
StripSlash(p) == IF EndsWith(p, Slash) THEN SubSeq(p, 1, Len(p) - 1) ELSE p

\* os.path.basename: what follows the last '/'
RECURSIVE Basename(_)
Basename(p) ==
    IF p = <<>> THEN <<>>
    ELSE IF p[Len(p)] = "/" THEN <<>>
         ELSE Basename(SubSeq(p, 1, Len(p) - 1)) \o <<p[Len(p)]>>

\* name of the sub-folder holding the converted files
ConvertedName(p) == Basename(StripSlash(p)) \o WavSuffix

\* the tuple test of the early check, '.wav', '.flac', '.aiff'
IsMusicName(fn) ==
    EndsWith(fn, DotWav) \/ EndsWith(fn, DotFlac) \/ EndsWith(fn, DotAiff)

M_HasMusic_Always(entries) == TRUE

\* any(filename.endswith((...)) for filename in os.listdir(music_folder))
HasMusic(entries) == \E fn \in entries : IsMusicName(fn)

\* filename.endswith('.wav')
IsWav(fn) == EndsWith(fn, DotWav)

M_IsConvertible_FlacOnly(fn) == EndsWith(fn, DotFlac)

\* filename.endswith('.flac') or filename.endswith('.aiff')
IsConvertible(fn) == EndsWith(fn, DotFlac) \/ EndsWith(fn, DotAiff)

\* filename.replace('.flac', '.wav'): the name the transcoder writes
ConvertTarget(fn) == Replace(fn, DotFlac, DotWav)

M_ConvertSkipName_Unreplaced(fn) == fn

\* the name whose existence decides the skip of a .flac/.aiff entry
ConvertSkipName(fn) == Replace(fn, DotFlac, DotWav)

\* ------------------------------------------------------------ file bytes
\* content of a source file of the music folder
Src(fn) == [from |-> fn, how |-> "original"]

M_CopyContent_Truncated(fn) == [from |-> fn, how |-> "partial"]

\* what shutil.copy2 leaves at the destination
CopyContent(fn) == Src(fn)

\* what the transcoder leaves at its output path
Transcoded(fn, complete) ==
    [from |-> fn, how |-> IF complete THEN "transcoded" ELSE "partial"]

\* outcomes of subprocess.call(['ffmpeg', ...]): the exception it raises (if
\* any), the exit status it returns, and what is left at the output path.
\* subprocess.call returns the status and raises no ffmpeg.Error.
TranscoderOutcomes ==
    { [exc |-> "none", status |-> 0, file |-> "complete"],
      [exc |-> "none", status |-> 1, file |-> "none"],
      [exc |-> "none", status |-> 1, file |-> "partial"],
      [exc |-> "KeyboardInterrupt", status |-> 1, file |-> "none"],
      [exc |-> "KeyboardInterrupt", status |-> 1, file |-> "partial"],
      [exc |-> "OSError", status |-> 1, file |-> "none"] }

\* ------------------------------------------------------------------ state
VARIABLES
    music_folder,    \* the -f argument of this folder's invocations
    folderKind,      \* "missing", "file" or "dir": what music_folder names
    inFiles,         \* names of the files in the music folder
    outExists,       \* the converted folder exists
    out,             \* converted folder: file name -> content
    run,             \* number of invocations of main() started so far
    pc,              \* position of the current invocation
    todo,            \* entries of os.listdir() the loop has not reached yet
    listing,         \* the os.listdir() the loop iterates over
    file_count,
    checked_count,
    copied_count,
    converter_count,
    skipped_count,
    error_count,
    error_files,
    summaries,       \* summaries logged by the current invocation
    retval,          \* <<>> until main() returns, then <<value>>
    events,          \* what the current invocation did with each entry
    iterations,      \* loop iterations of the current invocation
    out0,            \* the converted folder when the invocation started
    prev             \* how the previous invocation ended

fs == <<music_folder, folderKind, inFiles, outExists, out>>
counters == <<file_count, checked_count, copied_count, converter_count,
              skipped_count, error_count, error_files>>
locals == <<todo, listing, summaries, retval, events, iterations>>
vars == <<music_folder, folderKind, inFiles, outExists, out, run, pc, todo,
          listing, file_count, checked_count, copied_count, converter_count,
          skipped_count, error_count, error_files, summaries, retval, events,
          iterations, out0, prev>>

\* positions at which an invocation of main() has ended
Ended == {"early", "done", "interrupted", "crashed",
          "raised FileNotFoundError", "raised ValueError"}

NoFiles == [t \in {} |-> Src(t)]

\* os.listdir(music_folder)
ListDir(exists) ==
    inFiles \cup (IF exists THEN {ConvertedName(music_folder)} ELSE {})

M_TargetExists_Never(t) == FALSE

M_TargetExists_CompleteOnly(t) ==
    outExists /\ t \in DOMAIN out /\ out[t].how # "partial"

\* os.path.exists(os.path.join(converted_folder, t))
TargetExists(t) == outExists /\ t \in DOMAIN out

\* the lines the summary logs
Summary ==
    [file_count |-> file_count, checked |-> checked_count,
     copied |-> copied_count, converted |-> converter_count,
     skipped |-> skipped_count, errors |-> error_count,
     error_files |-> IF error_count > 0 THEN error_files ELSE <<>>]

Event(fn, action, target, exc, status) ==
    [entry |-> fn, action |-> action, target |-> target, exc |-> exc,
     status |-> status]

\* every transcoder call of the invocation returned exit status 0
AllTranscodesOk ==
    \A e \in events :
        e.action = "transcode" => (e.exc = "none" /\ e.status = 0)

Init ==
    /\ music_folder \in FolderArgs
    /\ folderKind \in {"missing", "file", "dir"}
    /\ inFiles \in {S \in SUBSET Names : Cardinality(S) <= MaxFiles}
    /\ folderKind # "dir" => inFiles = {}
    /\ outExists \in BOOLEAN
    /\ folderKind # "dir" => ~outExists
    /\ out = NoFiles
    /\ run = 0
    /\ pc = "idle"
    /\ todo = {}
    /\ listing = {}
    /\ file_count = 0
    /\ checked_count = 0
    /\ copied_count = 0
    /\ converter_count = 0
    /\ skipped_count = 0
    /\ error_count = 0
    /\ error_files = <<>>
    /\ summaries = <<>>
    /\ retval = <<>>
    /\ events = {}
    /\ iterations = 0
    /\ out0 = [exists |-> outExists, files |-> NoFiles]
    /\ prev = [pc |-> "none", allOk |-> FALSE, checked |-> 0]

\* main() is called (again) on the folder
Invoke ==
    /\ pc \in Ended \cup {"idle"}
    /\ run < MaxRuns
    /\ run' = run + 1
    /\ pc' = "validate"
    /\ prev' = IF pc = "idle" THEN prev
               ELSE [pc |-> pc, allOk |-> AllTranscodesOk,
                     checked |-> checked_count]
    /\ out0' = [exists |-> outExists, files |-> out]
    /\ todo' = {}
    /\ listing' = {}
    /\ file_count' = 0
    /\ checked_count' = 0
    /\ copied_count' = 0
    /\ converter_count' = 0
    /\ skipped_count' = 0
    /\ error_count' = 0
    /\ error_files' = <<>>
    /\ summaries' = <<>>
    /\ retval' = <<>>
    /\ events' = {}
    /\ iterations' = 0
    /\ UNCHANGED fs

\* if not os.path.exists(music_folder): raise FileNotFoundError
RaiseNotFound ==
    /\ pc = "validate"
    /\ folderKind = "missing"
    /\ pc' = "raised FileNotFoundError"
    /\ UNCHANGED <<fs, run, counters, locals, out0, prev>>

\* if not os.path.isdir(music_folder): raise ValueError
RaiseNotDir ==
    /\ pc = "validate"
    /\ folderKind = "file"
    /\ pc' = "raised ValueError"
    /\ UNCHANGED <<fs, run, counters, locals, out0, prev>>

\* no music file in the folder: warn and return 0
ReturnNoMusic ==
    /\ pc = "validate"
    /\ folderKind = "dir"
    /\ ~HasMusic(ListDir(outExists))
    /\ pc' = "early"
    /\ retval' = <<0>>
    /\ UNCHANGED <<fs, run, counters, todo, listing, summaries, events,
                   iterations, out0, prev>>

\* create the converted folder, count the entries, start the loop
BeginScan ==
    /\ pc = "validate"
    /\ folderKind = "dir"
    /\ HasMusic(ListDir(outExists))
    /\ outExists' = TRUE
    /\ file_count' = Cardinality(ListDir(TRUE)) - 1
    /\ listing' = ListDir(TRUE)
    /\ todo' = ListDir(TRUE)
    /\ pc' = "loop"
    /\ UNCHANGED <<music_folder, folderKind, inFiles, out, run,
                   checked_count, copied_count, converter_count,
                   skipped_count, error_count, error_files, summaries,
                   retval, events, iterations, out0, prev>>

\* one iteration done with entry fn: the loop moves to the next entry
Advance(fn, ev) ==
    /\ todo' = todo \ {fn}
    /\ events' = events \cup {ev}
    /\ iterations' = iterations + 1
    /\ UNCHANGED <<music_folder, folderKind, inFiles, outExists, run,
                   listing, file_count, out0, prev>>

\* an entry that ends in none of .wav, .flac, .aiff: neither branch is taken
IgnoreEntry(fn) ==
    /\ pc = "loop"
    /\ fn \in todo
    /\ ~IsWav(fn)
    /\ ~IsConvertible(fn)
    /\ Advance(fn, Event(fn, "ignore", fn, "none", 0))
    /\ UNCHANGED <<out, pc, checked_count, copied_count, converter_count,
                   skipped_count, error_count, error_files, summaries,
                   retval>>

\* the loop reaches some entry of the listing that is no music file
IgnoreListed == \E fn \in listing : IgnoreEntry(fn)

\* a .wav entry whose copy is already in the converted folder
SkipWav(fn) ==
    /\ pc = "loop"
    /\ fn \in todo
    /\ IsWav(fn)
    /\ TargetExists(fn)
    /\ checked_count' = checked_count + 1
    /\ skipped_count' = skipped_count + 1
    /\ Advance(fn, Event(fn, "skip", fn, "none", 0))
    /\ UNCHANGED <<out, pc, copied_count, converter_count, error_count,
                   error_files, summaries, retval>>

\* a .wav entry: shutil.copy2 into the converted folder
CopyWav(fn) ==
    /\ pc = "loop"
    /\ fn \in todo
    /\ IsWav(fn)
    /\ ~TargetExists(fn)
    /\ checked_count' = checked_count + 1
    /\ out' = (fn :> CopyContent(fn)) @@ out
    /\ copied_count' = copied_count + 1
    /\ Advance(fn, Event(fn, "copy", fn, "none", 0))
    /\ UNCHANGED <<pc, converter_count, skipped_count, error_count,
                   error_files, summaries, retval>>

\* a .flac/.aiff entry whose converted file is already there
SkipConvertible(fn) ==
    /\ pc = "loop"
    /\ fn \in todo
    /\ ~IsWav(fn)
    /\ IsConvertible(fn)
    /\ TargetExists(ConvertSkipName(fn))
    /\ checked_count' = checked_count + 1
    /\ skipped_count' = skipped_count + 1
    /\ Advance(fn, Event(fn, "skip", ConvertSkipName(fn), "none", 0))
    /\ UNCHANGED <<out, pc, copied_count, converter_count, error_count,
                   error_files, summaries, retval>>

\* the interrupt handler that keeps scanning instead of returning
M_ConvertEffect_InterruptContinues(exc) ==
    CASE exc = "none" ->
           [converted |-> 1, errors |-> 0, summary |-> FALSE, pc |-> "loop",
            retval |-> <<>>]
      [] exc = "KeyboardInterrupt" ->
           [converted |-> 0, errors |-> 0, summary |-> FALSE, pc |-> "loop",
            retval |-> <<>>]
      [] exc = "ffmpeg.Error" ->
           [converted |-> 0, errors |-> 1, summary |-> FALSE, pc |-> "loop",
            retval |-> <<>>]
      [] OTHER ->
           [converted |-> 0, errors |-> 0, summary |-> FALSE,
            pc |-> "crashed", retval |-> <<>>]

\* the try statement around the transcoder call, by what the call raised:
\* nothing (converter_count += 1), KeyboardInterrupt (summary, return 0),
\* ffmpeg.Error (error_count += 1, continue), anything else (not caught)
ConvertEffect(exc) ==
    CASE exc = "none" ->
           [converted |-> 1, errors |-> 0, summary |-> FALSE, pc |-> "loop",
            retval |-> <<>>]
      [] exc = "KeyboardInterrupt" ->
           [converted |-> 0, errors |-> 0, summary |-> TRUE,
            pc |-> "interrupted", retval |-> <<0>>]
      [] exc = "ffmpeg.Error" ->
           [converted |-> 0, errors |-> 1, summary |-> FALSE, pc |-> "loop",
            retval |-> <<>>]
      [] OTHER ->
           [converted |-> 0, errors |-> 0, summary |-> FALSE,
            pc |-> "crashed", retval |-> <<>>]

\* a .flac/.aiff entry: run the transcoder, with outcome o
Convert(fn, o) ==
    /\ pc = "loop"
    /\ fn \in todo
    /\ ~IsWav(fn)
    /\ IsConvertible(fn)
    /\ ~TargetExists(ConvertSkipName(fn))
    /\ checked_count' = checked_count + 1
    /\ out' = IF o.file = "none" THEN out
              ELSE (ConvertTarget(fn) :> Transcoded(fn, o.file = "complete"))
                   @@ out
    /\ LET eff == ConvertEffect(o.exc) IN
         /\ converter_count' = converter_count + eff.converted
         /\ error_count' = error_count + eff.errors
         /\ error_files' = IF eff.errors > 0 THEN Append(error_files, fn)
                           ELSE error_files
         /\ pc' = eff.pc
         /\ retval' = eff.retval
         /\ UNCHANGED <<copied_count, skipped_count>>
         /\ Advance(fn, Event(fn, "transcode", ConvertTarget(fn), o.exc,
                              o.status))
         /\ summaries' = IF eff.summary THEN Append(summaries, Summary')
                         ELSE summaries

\* the listing is exhausted: log the summary and return 0
Finish ==
    /\ pc = "loop"
    /\ todo = {}
    /\ summaries' = Append(summaries, Summary)
    /\ retval' = <<0>>
    /\ pc' = "done"
    /\ UNCHANGED <<fs, run, counters, todo, listing, events, iterations,
                   out0, prev>>

Next ==
    \/ Invoke
    \/ RaiseNotFound
    \/ RaiseNotDir
    \/ ReturnNoMusic
    \/ BeginScan
    \/ IgnoreListed
    \/ \E fn \in Names : SkipWav(fn)
    \/ \E fn \in Names : CopyWav(fn)
    \/ \E fn \in Names : SkipConvertible(fn)
    \/ \E fn \in Names, o \in TranscoderOutcomes : Convert(fn, o)
    \/ Finish

Spec == Init /\ [][Next]_vars

\* ------------------------------------------------------------- properties
\* the entries the last step dealt with (one, when the step is an iteration)
NewEvents == events' \ events

\* the output-folder name an entry's result goes to
TargetOf(fn) == IF EndsWith(fn, DotWav) THEN fn ELSE ConvertTarget(fn)

\* the music entries of the folder, by the three extensions
MusicEntries(S) ==
    {fn \in S : EndsWith(fn, DotWav) \/ EndsWith(fn, DotFlac)
                  \/ EndsWith(fn, DotAiff)}

\* the entry's name with the matched .flac/.aiff extension replaced by .wav
WavNameOf(fn) ==
    IF EndsWith(fn, DotFlac)
    THEN SubSeq(fn, 1, Len(fn) - Len(DotFlac)) \o DotWav
    ELSE IF EndsWith(fn, DotAiff)
         THEN SubSeq(fn, 1, Len(fn) - Len(DotAiff)) \o DotWav
         ELSE fn

\* C1: an entry whose target already exists in the output folder when it is
\* processed is skipped (skipped + 1, no copy, no transcoder call, output
\* folder untouched); no step ever changes or removes a file that exists in
\* the output folder; an entry gets at most one outcome per run.
C1_ExistingTargetNeverRewritten ==
    [][ /\ \A t \in DOMAIN out : t \in DOMAIN out' /\ out'[t] = out[t]
        /\ \A e \in NewEvents :
              (e.action # "ignore" /\ TargetOf(e.entry) \in DOMAIN out)
              => /\ e.action = "skip"
                 /\ skipped_count' = skipped_count + 1
                 /\ copied_count' = copied_count
                 /\ converter_count' = converter_count
                 /\ out' = out
        /\ \A e1, e2 \in events' : e1.entry = e2.entry => e1 = e2 ]_vars

\* C1 witness: an entry was skipped because another file's result (a.flac
\* transcoded, then a.wav) already sat at its target
C1_Witness ==
    \E e \in events :
        /\ e.action = "skip"
        /\ e.target \in DOMAIN out
        /\ out[e.target].from # e.entry

\* C2: between iterations, at normal completion and at the summary after an
\* interruption, checked = copied + converted + skipped + errors.
C2_SumInvariant ==
    pc \in {"loop", "done", "interrupted"}
    => checked_count
         = copied_count + converter_count + skipped_count + error_count

\* C3: when the transcoder returns a non-zero exit status, errors increases
\* by one, the file name is appended to error_files, converted does not
\* increase, and the scan goes on.
C3_FailureRecordedAsError ==
    [][ \A e \in NewEvents :
          (e.action = "transcode" /\ e.exc = "none" /\ e.status # 0)
          => /\ error_count' = error_count + 1
             /\ error_files' = Append(error_files, e.entry)
             /\ converter_count' = converter_count
             /\ pc' = "loop" ]_vars

\* C4: an invocation that follows one that completed normally with every
\* transcoder call succeeding calls neither copy nor the transcoder, leaves
\* the output folder as it found it, has copied = converted = 0 and
\* skipped = checked throughout, and ends with the same checked.
C4_RerunSkipsEverything ==
    (prev.pc \in {"done", "early"} /\ prev.allOk)
    => /\ \A e \in events : e.action \in {"skip", "ignore"}
       /\ out = out0.files
       /\ outExists = out0.exists
       /\ copied_count = 0
       /\ converter_count = 0
       /\ skipped_count = checked_count
       /\ pc \notin {"interrupted", "crashed"}
       /\ pc = "done" => checked_count = prev.checked

\* C4 witness: a second run has completed after a first one that copied and
\* transcoded
C4_Witness ==
    /\ run = 2
    /\ pc = "done"
    /\ prev.pc = "done"
    /\ prev.allOk
    /\ checked_count >= 2
    /\ \E t \in DOMAIN out : out[t].how = "transcoded"
    /\ \E t \in DOMAIN out : out[t].how = "original"

\* C5: when the transcoder succeeds for a .flac/.aiff entry, converted
\* increases by one and the file it was asked to create is the entry's name
\* with the extension replaced by .wav.
C5_ConvertedTargetIsWav ==
    [][ \A e \in NewEvents :
          (e.action = "transcode" /\ e.exc = "none" /\ e.status = 0)
          => /\ converter_count' = converter_count + 1
             /\ e.target = WavNameOf(e.entry)
             /\ EndsWith(e.target, DotWav)
             /\ e.target \in DOMAIN out' ]_vars

C7_InterruptStopsWithSummary ==
    [][ /\ \A e \in NewEvents :
              (e.action = "transcode" /\ e.exc = "KeyboardInterrupt")
              => /\ pc' = "interrupted"
                 /\ summaries' = <<Summary'>>
                 /\ retval' = <<0>>
        /\ (pc = "interrupted" /\ run' = run)
           => UNCHANGED <<events, counters, out, summaries, retval, todo>> ]_vars

\* C7 witness: interrupted with music entries still unprocessed
C7_Witness ==
    /\ pc = "interrupted"
    /\ MusicEntries(todo) # {}
    /\ checked_count >= 2
    /\ Len(summaries) = 1

\* C8: with no .wav/.flac/.aiff entry in the folder main returns 0 early:
\* no counter moves, nothing is copied or transcoded, no summary is logged
\* and the output folder is neither created nor changed.
C8_NoMusicNoWork ==
    (run >= 1 /\ folderKind = "dir" /\ MusicEntries(inFiles) = {})
    => /\ pc \in {"validate", "early"}
       /\ pc = "early" => retval = <<0>>
       /\ outExists = out0.exists
       /\ out = out0.files
       /\ events = {}
       /\ iterations = 0
       /\ summaries = <<>>
       /\ file_count = 0 /\ checked_count = 0 /\ copied_count = 0
       /\ converter_count = 0 /\ skipped_count = 0 /\ error_count = 0
       /\ error_files = <<>>

\* C8 witness: main returned early on a folder that holds a file and has no
\* output folder
C8_Witness ==
    /\ pc = "early"
    /\ inFiles # {}
    /\ ~outExists

\* C9: at normal completion every entry of the listing was processed exactly
\* once, checked is the number of entries ending in .wav, .flac or .aiff,
\* and any other entry moved no counter and caused no copy or transcoding.
C9_CheckedCountsMusicEntries ==
    pc = "done"
    => /\ listing = inFiles \cup {ConvertedName(music_folder)}
       /\ iterations = Cardinality(listing)
       /\ \A fn \in listing : Cardinality({e \in events : e.entry = fn}) = 1
       /\ checked_count = Cardinality(MusicEntries(listing))
       /\ \A e \in events :
             e.entry \notin MusicEntries(listing) <=> e.action = "ignore"
       /\ copied_count = Cardinality({e \in events : e.action = "copy"})
       /\ skipped_count = Cardinality({e \in events : e.action = "skip"})
       /\ converter_count + error_count
            = Cardinality({e \in events : e.action = "transcode"})

\* C9 witness: a completed run over a.wav, b.aiff and c.txt
C9_Witness ==
    /\ pc = "done"
    /\ inFiles = {AWav, BAiff, CTxt}
    /\ checked_count = 2

\* C10: a partial target left by an interrupted or failed transcoder call is
\* never changed or removed, and whenever its entry is processed again the
\* entry is counted as skipped and the transcoder is not called.
C10_PartialTargetStaysForever ==
    [][ /\ \A t \in DOMAIN out :
              out[t].how = "partial" => t \in DOMAIN out' /\ out'[t] = out[t]
        /\ \A e \in NewEvents :
              (/\ e.action # "ignore"
               /\ ConvertTarget(e.entry) \in DOMAIN out
               /\ out[ConvertTarget(e.entry)] = Transcoded(e.entry, FALSE))
              => /\ e.action = "skip"
                 /\ skipped_count' = skipped_count + 1
                 /\ converter_count' = converter_count ]_vars

\* C10 witness: a later run skipped the entry whose partial target an
\* interrupted run had left
C10_Witness ==
    /\ run >= 2
    /\ prev.pc = "interrupted"
    /\ \E e \in events :
          /\ e.action = "skip"
          /\ e.target \in DOMAIN out
          /\ out[e.target] = Transcoded(e.entry, FALSE)

====
